---- MODULE Spec2Model ----
(***************************************************************************)
(* A model of sympy's Fortran 77 code printer (sympy/printing/fcode.py):   *)
(* the driver fcode, the printers FCodePrinter and StrictFCodePrinter, the *)
(* top-level Piecewise lowering and the fixed-form line wrapper of         *)
(* doprint.  Text is modelled as sequences of one-character strings, so    *)
(* that slicing, joining with newlines and line lengths are computed as    *)
(* the Python code computes them.                                          *)
(***************************************************************************)
EXTENDS Integers, Sequences, FiniteSets, TLC

(***************************************************************************)
(* Python string primitives                                                *)
(***************************************************************************)

\* s[:n]
Take(s, n) == SubSeq(s, 1, IF n < Len(s) THEN n ELSE Len(s))

\* s[n:]
Drop(s, n) == SubSeq(s, n + 1, Len(s))

\* s.startswith(p)
startswith(s, p) == Len(s) >= Len(p) /\ SubSeq(s, 1, Len(p)) = p

NL == "\n"

RECURSIVE join(_, _)
\* sep.join(parts)
join(sep, parts) ==
  IF parts = <<>> THEN <<>>
  ELSE IF Len(parts) = 1 THEN parts[1]
  ELSE parts[1] \o sep \o join(sep, Tail(parts))

RECURSIVE concat(_)
\* "".join(parts)
concat(parts) ==
  IF parts = <<>> THEN <<>> ELSE parts[1] \o concat(Tail(parts))

RECURSIVE split(_, _)
\* text.split(c) for a one-character separator c
split(text, c) ==
  IF \A i \in 1..Len(text) : text[i] # c THEN <<text>>
  ELSE LET k == CHOOSE i \in 1..Len(text) :
                   text[i] = c /\ \A j \in 1..(i - 1) : text[j] # c
       IN <<SubSeq(text, 1, k - 1)>> \o split(Drop(text, k), c)

DigitChar == <<"0", "1", "2", "3", "4", "5", "6", "7", "8", "9">>

RECURSIVE NatStr(_)
NatStr(n) ==
  IF n < 10 THEN <<DigitChar[n + 1]>>
  ELSE NatStr(n \div 10) \o <<DigitChar[(n % 10) + 1]>>

\* str(n) and "%d" % n for a Python int
IntStr(n) == IF n < 0 THEN <<"-">> \o NatStr(0 - n) ELSE NatStr(n)

Alphabet ==
  <<"A", "B", "C", "D", "E", "F", "G", "H", "I", "J", "K", "L", "M",
    "N", "O", "P", "Q", "R", "S", "T", "U", "V", "W", "X", "Y", "Z", "_",
    "a", "b", "c", "d", "e", "f", "g", "h", "i", "j", "k", "l", "m",
    "n", "o", "p", "q", "r", "s", "t", "u", "v", "w", "x", "y", "z">>

\* ord(c) up to a monotone renumbering of the letters
Ord(c) == CHOOSE i \in 1..Len(Alphabet) : Alphabet[i] = c

RECURSIVE StrLess(_, _)
\* a < b for Python strings
StrLess(a, b) ==
  IF b = <<>> THEN FALSE
  ELSE IF a = <<>> THEN TRUE
  ELSE IF a[1] # b[1] THEN Ord(a[1]) < Ord(b[1])
  ELSE StrLess(Tail(a), Tail(b))

(***************************************************************************)
(* Expression trees (sympy.core), as far as the printer inspects them      *)
(***************************************************************************)

Node(k, n, pp, qq, a, re, im) ==
  [kind |-> k, name |-> n, p |-> pp, q |-> qq, args |-> a,
   real |-> re, imag |-> im]

Symbol(n)          == Node("Symbol", n, 0, 1, <<>>, FALSE, FALSE)
ImaginarySymbol(n) == Node("Symbol", n, 0, 1, <<>>, FALSE, TRUE)
Integer(n)         == Node("Integer", <<>>, n, 1, <<>>, TRUE, FALSE)
NumberSymbol(n)    == Node("NumberSymbol", n, 0, 1, <<>>, TRUE, FALSE)
I                  == Node("ImaginaryUnit", <<"I">>, 0, 1, <<>>, FALSE, TRUE)
AddNode(a)         == Node("Add", <<>>, 0, 1, a, FALSE, FALSE)
MulNode(a)         == Node("Mul", <<>>, 0, 1, a, FALSE, FALSE)
Pow(b, e)          == Node("Pow", <<>>, 0, 1, <<b, e>>, FALSE, FALSE)
Function(n, a)     == Node("Function", n, 0, 1, a, FALSE, FALSE)
Relational(l, op, r) == Node("Relational", op, 0, 1, <<l, r>>, FALSE, FALSE)
Integral(f, v)     == Node("Integral", <<>>, 0, 1, <<f, v>>, FALSE, FALSE)
Infinity           == Node("Infinity", <<>>, 0, 1, <<>>, TRUE, FALSE)
\* the Python literal True used as a Piecewise condition
true               == Node("bool", <<>>, 1, 1, <<>>, FALSE, FALSE)
ExprCondPair(e, c) == Node("ExprCondPair", <<>>, 0, 1, <<e, c>>, FALSE, FALSE)
Piecewise(pairs)   ==
  Node("Piecewise", <<"P", "i", "e", "c", "e", "w", "i", "s", "e">>, 0, 1, pairs, FALSE, FALSE)

RECURSIVE gcd(_, _)
gcd(a, b) == IF b = 0 THEN a ELSE gcd(b, a % b)

Abs(n) == IF n < 0 THEN 0 - n ELSE n

\* Rational(p, q): lowest terms, positive denominator, Integer when q = 1
Rational(pp, qq) ==
  LET sg == IF qq < 0 THEN 0 - 1 ELSE 1
      g  == gcd(Abs(pp), Abs(qq))
      np == (sg * pp) \div g
      nq == (sg * qq) \div g
  IN IF nq = 1 THEN Integer(np)
     ELSE Node("Rational", <<>>, np, nq, <<>>, TRUE, FALSE)

IsRational(e) == e.kind \in {"Integer", "Rational"}

RECURSIVE is_number(_)
is_number(e) ==
  CASE e.kind \in {"Integer", "Rational", "NumberSymbol", "ImaginaryUnit"} -> TRUE
    [] e.kind \in {"Add", "Mul", "Pow", "Function"} ->
         \A i \in 1..Len(e.args) : is_number(e.args[i])
    [] OTHER -> FALSE

RECURSIVE is_real(_)
RECURSIVE is_imaginary(_)
is_real(e) ==
  CASE e.kind \in {"Integer", "Rational", "NumberSymbol"} -> TRUE
    [] e.kind = "Symbol" -> e.real
    [] e.kind = "Add" -> \A i \in 1..Len(e.args) : is_real(e.args[i])
    [] e.kind = "Mul" ->
         /\ \A i \in 1..Len(e.args) :
               is_real(e.args[i]) \/ is_imaginary(e.args[i])
         /\ Cardinality({i \in 1..Len(e.args) : is_imaginary(e.args[i])}) % 2 = 0
    [] e.kind = "Pow" -> is_real(e.args[1]) /\ e.args[2].kind = "Integer"
    [] OTHER -> FALSE

is_imaginary(e) ==
  CASE e.kind = "ImaginaryUnit" -> TRUE
    [] e.kind = "Symbol" -> e.imag
    [] e.kind = "Add" ->
         Len(e.args) > 0 /\ \A i \in 1..Len(e.args) : is_imaginary(e.args[i])
    [] e.kind = "Mul" ->
         /\ \A i \in 1..Len(e.args) :
               is_real(e.args[i]) \/ is_imaginary(e.args[i])
         /\ Cardinality({i \in 1..Len(e.args) : is_imaginary(e.args[i])}) % 2 = 1
    [] OTHER -> FALSE

RECURSIVE SumRational(_)
\* the sum of a sequence of Integers and Rationals, as a node
SumRational(a) ==
  IF a = <<>> THEN Integer(0)
  ELSE LET r == SumRational(Tail(a))
       IN Rational(a[1].p * r.q + r.p * a[1].q, a[1].q * r.q)

\* Add(*args): no operand gives 0, one operand gives the operand itself,
\* rational operands are summed
Add(a) ==
  IF a = <<>> THEN Integer(0)
  ELSE IF Len(a) = 1 THEN a[1]
  ELSE IF \A i \in 1..Len(a) : IsRational(a[i]) THEN SumRational(a)
  ELSE AddNode(a)

RECURSIVE without(_, _)
\* a without its first occurrence of x
without(a, x) ==
  IF a = <<>> THEN <<>>
  ELSE IF a[1] = x THEN Tail(a)
  ELSE <<a[1]>> \o without(Tail(a), x)

\* Mul(*args) for operands that need no evaluation beyond the trivial ones
Mul(a) ==
  IF a = <<>> THEN Integer(1)
  ELSE IF Len(a) = 1 THEN a[1]
  ELSE MulNode(a)

\* -I*j for one imaginary number j
NegITimesTerm(j) ==
  IF j = I THEN Integer(1)
  ELSE IF j.kind = "Mul" /\ \E i \in 1..Len(j.args) : j.args[i] = I
       THEN Mul(without(j.args, I))
  ELSE MulNode(<<Integer(0 - 1), I, j>>)

\* -I*Add(*js)
NegITimes(js) == Add([i \in 1..Len(js) |-> NegITimesTerm(js[i])])

\* sympy.printing.precedence: Atom 1000, Func 70, Pow 60, Mul 50, Add 40,
\* Relational 35; negative numbers print with a leading minus
precedence(e) ==
  CASE e.kind = "Add" -> 40
    [] e.kind = "Mul" -> 50
    [] e.kind = "Pow" -> 60
    [] e.kind = "Relational" -> 35
    [] e.kind = "Function" -> 70
    [] e.kind = "Integer" -> IF e.p < 0 THEN 40 ELSE 1000
    [] e.kind = "Rational" -> IF e.p < 0 THEN 40 ELSE 50
    [] OTHER -> 1000

RECURSIVE postorder_traversal(_)
\* every node of the tree, children before their parent
postorder_traversal(e) ==
  concat([i \in 1..Len(e.args) |-> postorder_traversal(e.args[i])]) \o <<e>>

(***************************************************************************)
(* Printers.  A print either returns text or raises NotImplementedError.   *)
(* The printer settings P hold strict, user_functions and assign_to.       *)
(***************************************************************************)

Str(t) == [raised |-> FALSE, text |-> t]
Raised == [raised |-> TRUE, text |-> <<>>]

\* the text of a format string once every printed part is known
Format(parts, t) ==
  IF \E i \in 1..Len(parts) : parts[i].raised THEN Raised ELSE Str(t)

implicit_functions ==
  (<<"s", "i", "n">> :> <<"s", "i", "n">>) @@ (<<"c", "o", "s">> :> <<"c", "o", "s">>) @@
  (<<"t", "a", "n">> :> <<"t", "a", "n">>) @@ (<<"a", "s", "i", "n">> :> <<"a", "s", "i", "n">>) @@
  (<<"a", "c", "o", "s">> :> <<"a", "c", "o", "s">>) @@ (<<"a", "t", "a", "n">> :> <<"a", "t", "a", "n">>) @@
  (<<"a", "t", "a", "n", "2">> :> <<"a", "t", "a", "n", "2">>) @@
  (<<"s", "i", "n", "h">> :> <<"s", "i", "n", "h">>) @@ (<<"c", "o", "s", "h">> :> <<"c", "o", "s", "h">>) @@
  (<<"t", "a", "n", "h">> :> <<"t", "a", "n", "h">>) @@ (<<"s", "q", "r", "t">> :> <<"s", "q", "r", "t">>) @@
  (<<"l", "o", "g">> :> <<"l", "o", "g">>) @@ (<<"e", "x", "p">> :> <<"e", "x", "p">>) @@
  (<<"a", "b", "s">> :> <<"a", "b", "s">>) @@ (<<"s", "i", "g", "n">> :> <<"s", "i", "g", "n">>) @@
  (<<"c", "o", "n", "j", "u", "g", "a", "t", "e">> :> <<"c", "o", "n", "j", "g">>)

\* the classes StrictFCodePrinter binds to emptyPrinter
StrictBlacklist ==
  {"Basic", "ComplexInfinity", "Derivative", "dict", "Dummy", "ExprCondPair",
   "GeometryEntity", "Infinity", "Integral", "Interval", "Limit", "list",
   "Matrix", "DeferredVector", "NaN", "NegativeInfinity", "Normal", "Order",
   "PDF", "Relational", "RootOf", "RootsOf", "RootSum", "Sample", "SMatrix",
   "tuple", "Uniform", "Unit", "Wild", "WildFunction"}

RECURSIVE _print(_, _)

\* StrPrinter.stringify
stringify(args, sep, P) ==
  LET rs == [i \in 1..Len(args) |-> _print(args[i], P)]
  IN Format(rs, join(sep, [i \in 1..Len(args) |-> rs[i].text]))

\* StrPrinter.parenthesize
parenthesize(item, level, P) ==
  LET r == _print(item, P)
  IN IF precedence(item) <= level
     THEN Format(<<r>>, <<"(">> \o r.text \o <<")">>)
     ELSE r

RECURSIVE AddTerms(_, _, _)
\* the " + t" / " - t" tail of a printed sum
AddTerms(terms, rs, PREC) ==
  IF terms = <<>> THEN <<>>
  ELSE LET neg  == startswith(rs[1].text, <<"-">>)
           t    == IF neg THEN Drop(rs[1].text, 1) ELSE rs[1].text
           pt   == IF precedence(terms[1]) < PREC
                   THEN <<"(">> \o t \o <<")">> ELSE t
       IN <<" ", IF neg THEN "-" ELSE "+", " ">> \o pt
            \o AddTerms(Tail(terms), Tail(rs), PREC)

\* StrPrinter._print_Add: operands in stored order, signs taken from the
\* leading '-' of each printed operand, the first '+' dropped
StrPrinter_print_Add(expr, P) ==
  LET rs   == [i \in 1..Len(expr.args) |-> _print(expr.args[i], P)]
      all  == AddTerms(expr.args, rs, precedence(expr))
      \* all starts with " + " or " - "
      text == IF all[2] = "-" THEN <<"-">> \o Drop(all, 3) ELSE Drop(all, 3)
  IN Format(rs, text)

\* StrPrinter._print_Mul: a negative leading coefficient becomes a leading
\* '-', a coefficient 1 is dropped, factors are joined with '*'
StrPrinter_print_Mul(expr, P) ==
  LET c     == expr.args[1]
      neg   == IsRational(c) /\ c.p < 0
      pos   == IF neg THEN Rational(0 - c.p, c.q) ELSE c
      terms == IF neg /\ pos = Integer(1) THEN Tail(expr.args)
               ELSE <<pos>> \o Tail(expr.args)
      rs    == [i \in 1..Len(terms) |-> parenthesize(terms[i], precedence(expr), P)]
      body  == join(<<"*">>, [i \in 1..Len(terms) |-> rs[i].text])
  IN Format(rs, IF neg THEN <<"-">> \o body ELSE body)

\* StrPrinter._print_Pow
StrPrinter_print_Pow(expr, P) ==
  LET b == parenthesize(expr.args[1], precedence(expr), P)
      e == parenthesize(expr.args[2], precedence(expr), P)
  IN Format(<<b, e>>, b.text \o <<"*", "*">> \o e.text)

\* StrPrinter's rendering of the kinds the Fortran printer does not override
StrPrinter_print(expr, P) ==
  CASE expr.kind = "Symbol" -> Str(expr.name)
    [] expr.kind = "Integer" -> Str(IntStr(expr.p))
    [] expr.kind = "Infinity" -> Str(<<"o", "o">>)
    [] expr.kind = "Relational" ->
         LET l == _print(expr.args[1], P)
             r == _print(expr.args[2], P)
         IN Format(<<l, r>>, l.text \o <<" ">> \o expr.name \o <<" ">> \o r.text)
    [] expr.kind = "Integral" ->
         LET a == stringify(expr.args, <<",", " ">>, P)
         IN Format(<<a>>, <<"I", "n", "t", "e", "g", "r", "a", "l">> \o <<"(">> \o a.text \o <<")">>)
    [] OTHER ->
         LET a == stringify(expr.args, <<",", " ">>, P)
         IN Format(<<a>>, <<"(">> \o a.text \o <<")">>)

\* variant: real numbers alone already trigger the cmplx wrapping
_print_Add_WrapReal(expr, P) ==
  LET isR(a) == is_real(a) /\ is_number(a)
      isJ(a) == ~isR(a) /\ is_imaginary(a) /\ is_number(a)
      pure_real      == SelectSeq(expr.args, isR)
      pure_imaginary == SelectSeq(expr.args, isJ)
      mixed          == SelectSeq(expr.args, LAMBDA a : ~isR(a) /\ ~isJ(a))
      re == _print(Add(pure_real), P)
      im == _print(NegITimes(pure_imaginary), P)
  IN IF Len(pure_imaginary) > 0 \/ Len(pure_real) > 0
     THEN IF Len(mixed) > 0
          THEN LET PREC == precedence(expr)
                   term == Add(mixed)
                   tr   == _print(term, P)
                   neg  == startswith(tr.text, <<"-">>)
                   sign == IF neg THEN "-" ELSE "+"
                   t1   == IF neg THEN Drop(tr.text, 1) ELSE tr.text
                   t    == IF precedence(term) < PREC
                           THEN <<"(">> \o t1 \o <<")">> ELSE t1
               IN Format(<<tr, re, im>>,
                         <<"c", "m", "p", "l", "x">> \o <<"(">> \o re.text \o <<",">> \o im.text
                           \o <<")", " ", sign, " ">> \o t)
          ELSE Format(<<re, im>>,
                      <<"c", "m", "p", "l", "x">> \o <<"(">> \o re.text \o <<",">> \o im.text
                        \o <<")">>)
     ELSE StrPrinter_print_Add(expr, P)

_print_Add(expr, P) ==
  LET isR(a) == is_real(a) /\ is_number(a)
      isJ(a) == ~isR(a) /\ is_imaginary(a) /\ is_number(a)
      pure_real      == SelectSeq(expr.args, isR)
      pure_imaginary == SelectSeq(expr.args, isJ)
      mixed          == SelectSeq(expr.args, LAMBDA a : ~isR(a) /\ ~isJ(a))
      re == _print(Add(pure_real), P)
      im == _print(NegITimes(pure_imaginary), P)
  IN IF Len(pure_imaginary) > 0
     THEN IF Len(mixed) > 0
          THEN LET PREC == precedence(expr)
                   term == Add(mixed)
                   tr   == _print(term, P)
                   neg  == startswith(tr.text, <<"-">>)
                   sign == IF neg THEN "-" ELSE "+"
                   t1   == IF neg THEN Drop(tr.text, 1) ELSE tr.text
                   t    == IF precedence(term) < PREC
                           THEN <<"(">> \o t1 \o <<")">> ELSE t1
               IN Format(<<tr, re, im>>,
                         <<"c", "m", "p", "l", "x">> \o <<"(">> \o re.text \o <<",">> \o im.text
                           \o <<")", " ", sign, " ">> \o t)
          ELSE Format(<<re, im>>,
                      <<"c", "m", "p", "l", "x">> \o <<"(">> \o re.text \o <<",">> \o im.text
                        \o <<")">>)
     ELSE StrPrinter_print_Add(expr, P)

\* variant: the implicit table is consulted before user_functions
_print_Function_ImplicitFirst(expr, P) ==
  LET uf    == P.user_functions
      name1 == IF expr.name \in DOMAIN implicit_functions
               THEN <<implicit_functions[expr.name]>> ELSE <<>>
      name2 == IF name1 = <<>> /\ expr.name \in DOMAIN uf
               THEN <<uf[expr.name]>> ELSE name1
      name  == IF name2 = <<>> THEN expr.name ELSE name2[1]
      a     == stringify(expr.args, <<",", " ">>, P)
  IN Format(<<a>>, name \o <<"(">> \o a.text \o <<")">>)

_print_Function(expr, P) ==
  LET uf    == P.user_functions
      name1 == IF expr.name \in DOMAIN uf THEN <<uf[expr.name]>> ELSE <<>>
      name2 == IF name1 = <<>> /\ expr.name \in DOMAIN implicit_functions
               THEN <<implicit_functions[expr.name]>> ELSE name1
      name  == IF name2 = <<>> THEN expr.name ELSE name2[1]
      a     == stringify(expr.args, <<",", " ">>, P)
  IN Format(<<a>>, name \o <<"(">> \o a.text \o <<")">>)

_print_ImaginaryUnit(expr, P) == Str(<<"c", "m", "p", "l", "x">> \o <<"(", "0", ",", "1", ")">>)

\* str() of a Python int or bool
_print_int(expr, P) ==
  IF expr.kind = "bool"
  THEN Str(IF expr.p = 1 THEN <<"T", "r", "u", "e">> ELSE <<"F", "a", "l", "s", "e">>)
  ELSE Str(IntStr(expr.p))

_print_Mul(expr, P) ==
  IF is_imaginary(expr) /\ is_number(expr)
  THEN LET r == _print(NegITimes(<<expr>>), P)
       IN Format(<<r>>, <<"c", "m", "p", "l", "x">> \o <<"(", "0", ",">> \o r.text \o <<")">>)
  ELSE StrPrinter_print_Mul(expr, P)

_print_NumberSymbol(expr, P) == Str(expr.name)

_print_Pow(expr, P) ==
  LET PREC == precedence(expr)
  IN IF expr.args[2] = Integer(0 - 1)
     THEN LET b == parenthesize(expr.args[1], PREC, P)
          IN Format(<<b>>, <<"1", ".", "0", "/">> \o b.text)
     ELSE IF expr.args[2] = Rational(1, 2)
     THEN LET b == _print(expr.args[1], P)
          IN Format(<<b>>, <<"s", "q", "r", "t">> \o <<"(">> \o b.text \o <<")">>)
     ELSE StrPrinter_print_Pow(expr, P)

_print_Rational(expr, P) ==
  Str(IntStr(expr.p) \o <<".", "0", "/">> \o IntStr(expr.q) \o <<".", "0">>)

\* StrictFCodePrinter.emptyPrinter
emptyPrinter(expr, P) == Raised

\* variant: the strict printer falls back to the function's own name
Strict_print_Function_Fallback(expr, P) ==
  LET uf    == P.user_functions
      name1 == IF expr.name \in DOMAIN uf THEN <<uf[expr.name]>> ELSE <<>>
      name2 == IF name1 = <<>> /\ expr.name \in DOMAIN implicit_functions
               THEN <<implicit_functions[expr.name]>> ELSE name1
      name  == IF name2 = <<>> THEN expr.name ELSE name2[1]
      a     == stringify(expr.args, <<",", " ">>, P)
  IN Format(<<a>>, name \o <<"(">> \o a.text \o <<")">>)

\* StrictFCodePrinter._print_Function
Strict_print_Function(expr, P) ==
  LET uf    == P.user_functions
      name1 == IF expr.name \in DOMAIN uf THEN <<uf[expr.name]>> ELSE <<>>
      name2 == IF name1 = <<>> /\ expr.name \in DOMAIN implicit_functions
               THEN <<implicit_functions[expr.name]>> ELSE name1
      a     == stringify(expr.args, <<",", " ">>, P)
  IN IF name2 = <<>> THEN Raised
     ELSE Format(<<a>>, name2[1] \o <<"(">> \o a.text \o <<")">>)

\* Printer._print: dispatch on the class of expr, the strict printer's
\* methods shadowing those of FCodePrinter and StrPrinter
_print(expr, P) ==
  CASE P.strict /\ expr.kind \in StrictBlacklist -> emptyPrinter(expr, P)
    [] expr.kind = "Add" -> _print_Add(expr, P)
    [] expr.kind = "Mul" -> _print_Mul(expr, P)
    [] expr.kind = "Pow" -> _print_Pow(expr, P)
    [] expr.kind \in {"Function", "Piecewise"} ->
         IF P.strict THEN Strict_print_Function(expr, P)
         ELSE _print_Function(expr, P)
    [] expr.kind = "ImaginaryUnit" -> _print_ImaginaryUnit(expr, P)
    [] expr.kind = "NumberSymbol" -> _print_NumberSymbol(expr, P)
    [] expr.kind = "Rational" -> _print_Rational(expr, P)
    [] expr.kind = "bool" -> _print_int(expr, P)
    [] OTHER -> StrPrinter_print(expr, P)

(***************************************************************************)
(* NumberSymbols: names, values and ordering                               *)
(***************************************************************************)

Catalan     == NumberSymbol(<<"C", "a", "t", "a", "l", "a", "n">>)
EulerGamma  == NumberSymbol(<<"E", "u", "l", "e", "r", "G", "a", "m", "m", "a">>)
E           == NumberSymbol(<<"E">>)
GoldenRatio == NumberSymbol(<<"G", "o", "l", "d", "e", "n", "R", "a", "t", "i", "o">>)
pi          == NumberSymbol(<<"p", "i">>)

\* the leading significant decimal digits of each constant
SignificantDigits(ns) ==
  CASE ns = pi ->
      <<3, 1, 4, 1, 5, 9, 2, 6, 5, 3, 5, 8, 9, 7, 9, 3, 2, 3, 8, 4,
      6, 2, 6, 4, 3, 3, 8, 3, 2, 7, 9, 5, 0, 2, 8, 8, 4, 1, 9, 7,
      1, 6, 9, 3, 9, 9, 3, 7, 5, 1, 0, 5, 8, 2, 0, 9, 7, 4, 9, 4>>
    [] ns = E ->
      <<2, 7, 1, 8, 2, 8, 1, 8, 2, 8, 4, 5, 9, 0, 4, 5, 2, 3, 5, 3,
      6, 0, 2, 8, 7, 4, 7, 1, 3, 5, 2, 6, 6, 2, 4, 9, 7, 7, 5, 7,
      2, 4, 7, 0, 9, 3, 6, 9, 9, 9, 5, 9, 5, 7, 4, 9, 6, 6, 9, 6>>
    [] ns = GoldenRatio ->
      <<1, 6, 1, 8, 0, 3, 3, 9, 8, 8, 7, 4, 9, 8, 9, 4, 8, 4, 8, 2,
      0, 4, 5, 8, 6, 8, 3, 4, 3, 6, 5, 6, 3, 8, 1, 1, 7, 7, 2, 0,
      3, 0, 9, 1, 7, 9, 8, 0, 5, 7, 6, 2, 8, 6, 2, 1, 3, 5, 4, 4>>
    [] ns = EulerGamma ->
      <<5, 7, 7, 2, 1, 5, 6, 6, 4, 9, 0, 1, 5, 3, 2, 8, 6, 0, 6, 0,
      6, 5, 1, 2, 0, 9, 0, 0, 8, 2, 4, 0, 2, 4, 3, 1, 0, 4, 2, 1,
      5, 9, 3, 3, 5, 9, 3, 9, 9, 2, 3, 5, 9, 8, 8, 0, 5, 7, 6, 7>>
    [] ns = Catalan ->
      <<9, 1, 5, 9, 6, 5, 5, 9, 4, 1, 7, 7, 2, 1, 9, 0, 1, 5, 0, 5,
      4, 6, 0, 3, 5, 1, 4, 9, 3, 2, 3, 8, 4, 1, 1, 0, 7, 7, 4, 1,
      4, 9, 3, 7, 4, 2, 8, 1, 6, 7, 2, 1, 3, 4, 2, 6, 6, 4, 9, 8>>

\* Catalan and EulerGamma are below 1, the other constants have one digit
\* before the decimal point
IntegerDigits(ns) == IF ns \in {Catalan, EulerGamma} THEN 0 ELSE 1

RECURSIVE Increment(_)
\* add one unit in the last place of a digit sequence
Increment(d) ==
  IF d = <<>> THEN <<1>>
  ELSE IF d[Len(d)] = 9 THEN Increment(SubSeq(d, 1, Len(d) - 1)) \o <<0>>
  ELSE SubSeq(d, 1, Len(d) - 1) \o <<d[Len(d)] + 1>>

\* str(ns.evalf(prec)): prec significant digits, rounded to nearest
evalf(ns, prec) ==
  LET all  == SignificantDigits(ns)
      cut  == SubSeq(all, 1, prec)
      d    == IF all[prec + 1] >= 5 THEN Increment(cut) ELSE cut
      txt  == [k \in 1..Len(d) |-> DigitChar[d[k] + 1]]
      n    == IntegerDigits(ns)
  IN IF n = 0 THEN <<"0", ".">> \o txt
     ELSE SubSeq(txt, 1, n) \o <<".">> \o SubSeq(txt, n + 1, Len(txt))

\* a < b between two NumberSymbols, the order sorted() uses
NumberSymbol_lt(a, b) == StrLess(a.name, b.name)

\* the value of a constant in tenths, rounded down
Tenths(ns) ==
  IF IntegerDigits(ns) = 1
  THEN 10 * SignificantDigits(ns)[1] + SignificantDigits(ns)[2]
  ELSE SignificantDigits(ns)[1]

RECURSIVE sorted_by_value(_)
\* variant: the symbols are ordered by their values
sorted_by_value(S) ==
  IF S = {} THEN <<>>
  ELSE LET m == CHOOSE a \in S : \A c \in S \ {a} : Tenths(a) < Tenths(c)
       IN <<m>> \o sorted_by_value(S \ {m})

RECURSIVE sorted(_)
\* sorted(set of NumberSymbols)
sorted(S) ==
  IF S = {} THEN <<>>
  ELSE LET m == CHOOSE a \in S : \A b \in S \ {a} : NumberSymbol_lt(a, b)
       IN <<m>> \o sorted(S \ {m})

(***************************************************************************)
(* Inputs of one call of fcode                                             *)
(***************************************************************************)

\* longest assign_to name tried
MaxAssignLen == 125
\* largest precision tried
MaxPrecision == 40
\* most branches of a root Piecewise tried
MaxBranches == 3

x == Symbol(<<"x">>)
y == Symbol(<<"y">>)
b == Symbol(<<"b">>)
sin(a)   == Function(<<"s", "i", "n">>, <<a>>)
gamma(a) == Function(<<"g", "a", "m", "m", "a">>, <<a>>)
g(a)     == Function(<<"g">>, <<a>>)

\* assign_to is None (<<>>) or a name (<<name>>); the lengths put the
\* assignment "name = x" on both sides of the 66 and 128 character marks
AssignTos ==
  {<<>>} \cup
  {<<[k \in 1..n |-> "v"]>> :
     n \in {m \in 1..MaxAssignLen : m \in {1, 62, 63, 124} \/ m = MaxAssignLen}}

Precisions == {5, 15, MaxPrecision}

\* user_functions: a dict from function classes to names
UserFunctionMaps ==
  { <<>>,
    (<<"s", "i", "n">> :> <<"z", "s", "i", "n">>) @@ (<<"g", "a", "m", "m", "a">> :> <<"m", "y", "g", "a", "m", "m", "a">>) }

BranchValue(k) ==
  CASE k = 1 -> x
    [] k = 2 -> Pow(x, Integer(2))
    [] k = 3 -> sin(x)
    [] OTHER -> MulNode(<<Integer(k), pi>>)

BranchCondition(k) ==
  CASE k = 1 -> Relational(x, <<"<">>, Integer(1))
    [] k = 2 -> Relational(Integer(1), <<"<">>, x)
    [] k = 3 -> Relational(Integer(0), <<"<">>, x)
    [] OTHER -> Relational(x, <<"<">>, E)

\* Piecewise((e1, c1), ..., (en, cn)) with cn the literal True when else_
PiecewiseOf(n, else_) ==
  Piecewise([k \in 1..n |->
     ExprCondPair(BranchValue(k),
                  IF k = n /\ else_ THEN true ELSE BranchCondition(k))])

Exprs ==
  { x, Integer(67), Integer(0 - 1), Rational(3, 7), Rational(3, 0 - 7), I,
    Pow(x, Pow(y, Integer(3))), Pow(x, Rational(1, 2)),
    Pow(AddNode(<<x, y>>), Integer(0 - 1)),
    \* NumberSymbols
    pi, MulNode(<<EulerGamma, Catalan, x>>), Pow(pi, pi),
    AddNode(<<MulNode(<<EulerGamma, Catalan, x>>), sin(EulerGamma), pi>>),
    AddNode(<<x, sin(GoldenRatio), MulNode(<<E, y>>), Catalan>>),
    Piecewise(<<ExprCondPair(pi, Relational(x, <<"<">>, E)),
                ExprCondPair(MulNode(<<Integer(2), pi>>), true)>>),
    \* complex numbers
    MulNode(<<Integer(4), I>>), MulNode(<<I, x>>),
    AddNode(<<Integer(3), MulNode(<<Integer(4), I>>)>>),
    AddNode(<<Integer(3), MulNode(<<Integer(0 - 4), I>>)>>),
    AddNode(<<Integer(3), MulNode(<<Integer(4), I>>), x>>),
    AddNode(<<Integer(3), MulNode(<<Integer(4), I>>), MulNode(<<Integer(0 - 1), x>>)>>),
    AddNode(<<Rational(1, 2), I, MulNode(<<Integer(0 - 1), x>>), y>>),
    AddNode(<<MulNode(<<Integer(4), I>>), gamma(x)>>),
    AddNode(<<Integer(3), ImaginarySymbol(<<"x">>)>>),
    AddNode(<<Integer(3), MulNode(<<I, x>>)>>),
    AddNode(<<Integer(3), x>>), AddNode(<<x, y>>),
    AddNode(<<MulNode(<<Integer(0 - 1), x>>), y>>),
    \* functions
    sin(x), Function(<<"a", "t", "a", "n", "2">>, <<x, y>>),
    Function(<<"c", "o", "n", "j", "u", "g", "a", "t", "e">>, <<x>>), gamma(x), g(x), sin(gamma(x)),
    Pow(sin(x), g(y)), Integral(sin(x), x), AddNode(<<x, Infinity>>),
    \* root Piecewise
    Piecewise(<<ExprCondPair(x, b), ExprCondPair(gamma(x), true)>>),
    Piecewise(<<ExprCondPair(x, true), ExprCondPair(y, b)>>),
    Piecewise(<<ExprCondPair(x, b), ExprCondPair(y, true),
                ExprCondPair(sin(x), b)>>) }
  \cup { PiecewiseOf(n, e) : n \in 1..MaxBranches, e \in BOOLEAN }

(***************************************************************************)
(* One call fcode(expr, assign_to, precision, user_functions, strict,      *)
(* human), run statement by statement                                      *)
(***************************************************************************)

VARIABLES
  expr, assign_to, precision, user_functions, strict, human,  \* arguments
  pc,              \* the statement fcode is at
  todo,            \* what postorder_traversal has yet to yield
  found,           \* the set number_symbols while it is being filled
  number_symbols,  \* the list number_symbols of (name, value) pairs
  lines,           \* doprint: the logical lines
  i,               \* doprint: index of the next Piecewise branch
  n,               \* doprint: number of logical lines taken by the wrapper
  line,            \* doprint: what is left of the line being wrapped
  wrapped_lines,   \* doprint: the physical lines
  result           \* the text fcode holds in result

args == <<expr, assign_to, precision, user_functions, strict, human>>
vars == <<expr, assign_to, precision, user_functions, strict, human, pc,
          todo, found, number_symbols, lines, i, n, line, wrapped_lines,
          result>>

\* what a call records as not being Fortran 77: fcode and its printers keep
\* no such record, their only collections are number_symbols and the lines
not_fortran_77 == {}

profile ==
  [strict |-> strict, user_functions |-> user_functions,
   assign_to |-> assign_to]

Init ==
  /\ expr \in Exprs
  /\ assign_to \in AssignTos
  /\ precision \in Precisions
  /\ user_functions \in UserFunctionMaps
  /\ strict \in BOOLEAN
  /\ human \in BOOLEAN
  /\ pc = "traverse"
  /\ todo = postorder_traversal(expr)
  /\ found = {}
  /\ number_symbols = <<>>
  /\ lines = <<>>
  /\ i = 0
  /\ n = 0
  /\ line = <<>>
  /\ wrapped_lines = <<>>
  /\ result = <<>>

\* for sub in postorder_traversal(expr): ... number_symbols.add(sub)
Traverse ==
  /\ pc = "traverse"
  /\ todo # <<>>
  /\ found' = IF Head(todo).kind = "NumberSymbol"
              THEN found \cup {Head(todo)} ELSE found
  /\ todo' = Tail(todo)
  /\ UNCHANGED <<args, pc, number_symbols, lines, i, n, line, wrapped_lines,
                 result>>

\* variant: the values are evaluated at the default precision
NumberSymbolList_DefaultPrecision(S, prec) ==
  LET order == sorted(S)
  IN [k \in 1..Len(order) |-> <<order[k].name, evalf(order[k], 15)>>]

\* [(str(ns), ns.evalf(precision)) for ns in sorted(number_symbols)]
NumberSymbolList(S, prec) ==
  LET order == sorted(S)
  IN [k \in 1..Len(order) |-> <<order[k].name, evalf(order[k], prec)>>]

SortNumberSymbols ==
  /\ pc = "traverse"
  /\ todo = <<>>
  /\ number_symbols' = NumberSymbolList(found, precision)
  /\ pc' = "doprint"
  /\ UNCHANGED <<args, todo, found, lines, i, n, line, wrapped_lines, result>>

\* line = StrPrinter.doprint(self, expr), turned into an assignment
PlainLine(e, P) ==
  LET r == _print(e, P)
  IN IF P.assign_to # <<>>
     THEN Format(<<r>>, P.assign_to[1] \o <<" ", "=", " ">> \o r.text)
     ELSE r

PrintExpression ==
  /\ pc = "doprint"
  /\ expr.kind # "Piecewise"
  /\ LET r == PlainLine(expr, profile)
     IN IF r.raised
        THEN pc' = "raised" /\ lines' = lines
        ELSE pc' = "wrap" /\ lines' = Append(lines, r.text)
  /\ UNCHANGED <<args, todo, found, number_symbols, i, n, line,
                 wrapped_lines, result>>

\* variant: any later branch whose condition is True becomes "else"
BranchHeader_ElseOnAnyTrue(k, cnt, c, P) ==
  LET r == _print(c, P)
  IN IF k = 0
     THEN Format(<<r>>, <<"i", "f">> \o <<" ", "(">> \o r.text \o <<")", " ">> \o <<"t", "h", "e", "n">>)
     ELSE IF c = true
     THEN Str(<<"e", "l", "s", "e">>)
     ELSE Format(<<r>>, <<"e", "l", "s", "e">> \o <<" ">> \o <<"i", "f">> \o <<" ", "(">> \o r.text
                          \o <<")", " ">> \o <<"t", "h", "e", "n">>)

\* the header of branch k (counted from 0) of a Piecewise with cnt branches
BranchHeader(k, cnt, c, P) ==
  LET r == _print(c, P)
  IN IF k = 0
     THEN Format(<<r>>, <<"i", "f">> \o <<" ", "(">> \o r.text \o <<")", " ">> \o <<"t", "h", "e", "n">>)
     ELSE IF k = cnt - 1 /\ c = true
     THEN Str(<<"e", "l", "s", "e">>)
     ELSE Format(<<r>>, <<"e", "l", "s", "e">> \o <<" ">> \o <<"i", "f">> \o <<" ", "(">> \o r.text
                          \o <<")", " ">> \o <<"t", "h", "e", "n">>)

\* variant: the branch bodies are not turned into assignments
BranchBody_Unassigned(e, P) ==
  LET r == _print(e, P)
  IN Format(<<r>>, <<" ", " ">> \o r.text)

\* the body line of a branch
BranchBody(e, P) ==
  LET r == _print(e, P)
  IN IF P.assign_to = <<>>
     THEN Format(<<r>>, <<" ", " ">> \o r.text)
     ELSE Format(<<r>>, <<" ", " ">> \o P.assign_to[1] \o <<" ", "=", " ">> \o r.text)

PrintBranch ==
  /\ pc = "doprint"
  /\ expr.kind = "Piecewise"
  /\ i < Len(expr.args)
  /\ LET e == expr.args[i + 1].args[1]
         c == expr.args[i + 1].args[2]
         h == BranchHeader(i, Len(expr.args), c, profile)
         t == BranchBody(e, profile)
     IN IF h.raised \/ t.raised
        THEN pc' = "raised" /\ lines' = lines /\ i' = i
        ELSE pc' = pc /\ lines' = lines \o <<h.text, t.text>> /\ i' = i + 1
  /\ UNCHANGED <<args, todo, found, number_symbols, n, line, wrapped_lines,
                 result>>

PrintEndIf ==
  /\ pc = "doprint"
  /\ expr.kind = "Piecewise"
  /\ i = Len(expr.args)
  /\ lines' = Append(lines, <<"e", "n", "d">> \o <<" ">> \o <<"i", "f">>)
  /\ pc' = "wrap"
  /\ UNCHANGED <<args, todo, found, number_symbols, i, n, line,
                 wrapped_lines, result>>

StatementPrefix == <<" ", " ", " ", " ", " ", " ">>
ContinuationPrefix == <<" ", " ", " ", " ", " ", "@", " ", " ", " ", " ">>

\* hunk = line[:66]; line = line[66:]; wrapped_lines.append("      %s" % hunk)
WrapLine ==
  /\ pc = "wrap"
  /\ n < Len(lines)
  /\ LET hunk == Take(lines[n + 1], 66)
     IN wrapped_lines' = Append(wrapped_lines, StatementPrefix \o hunk)
  /\ line' = Drop(lines[n + 1], 66)
  /\ n' = n + 1
  /\ pc' = IF Len(line') > 0 THEN "while" ELSE "wrap"
  /\ UNCHANGED <<args, todo, found, number_symbols, lines, i, result>>

\* variant: continuation lines take 66 characters like statement lines
WrapContinuation_Slice66 ==
  /\ pc = "while"
  /\ Len(line) > 0
  /\ LET hunk == Take(line, 66)
     IN wrapped_lines' = Append(wrapped_lines, ContinuationPrefix \o hunk)
  /\ line' = Drop(line, 66)
  /\ pc' = IF Len(line') > 0 THEN "while" ELSE "wrap"
  /\ UNCHANGED <<args, todo, found, number_symbols, lines, i, n, result>>

\* hunk = line[:62]; line = line[62:];
\* wrapped_lines.append("     @    %s" % hunk)
WrapContinuation ==
  /\ pc = "while"
  /\ Len(line) > 0
  /\ LET hunk == Take(line, 62)
     IN wrapped_lines' = Append(wrapped_lines, ContinuationPrefix \o hunk)
  /\ line' = Drop(line, 62)
  /\ pc' = IF Len(line') > 0 THEN "while" ELSE "wrap"
  /\ UNCHANGED <<args, todo, found, number_symbols, lines, i, n, result>>

\* return "\n".join(wrapped_lines)
ReturnFromDoprint ==
  /\ pc = "wrap"
  /\ n = Len(lines)
  /\ result' = join(<<NL>>, wrapped_lines)
  /\ pc' = "return"
  /\ UNCHANGED <<args, todo, found, number_symbols, lines, i, n, line,
                 wrapped_lines>>

\* variant: the declaration starts in column 1
ParameterLine_Unindented(name, value) ==
  <<"p", "a", "r", "a", "m", "e", "t", "e", "r">> \o <<" ", "(">> \o name \o <<" ", "=", " ">> \o value
    \o <<")", NL>>

\* "      parameter (%s = %s)\n" % (name, value)
ParameterLine(name, value) ==
  StatementPrefix \o <<"p", "a", "r", "a", "m", "e", "t", "e", "r">> \o <<" ", "(">> \o name \o <<" ", "=", " ">>
    \o value \o <<")", NL>>

ReturnHuman ==
  /\ pc = "return"
  /\ human
  /\ result' = concat([k \in 1..Len(number_symbols) |->
                         ParameterLine(number_symbols[k][1],
                                       number_symbols[k][2])]) \o result
  /\ pc' = "done"
  /\ UNCHANGED <<args, todo, found, number_symbols, lines, i, n, line,
                 wrapped_lines>>

\* return number_symbols, result
ReturnPair ==
  /\ pc = "return"
  /\ ~human
  /\ pc' = "done"
  /\ UNCHANGED <<args, todo, found, number_symbols, lines, i, n, line,
                 wrapped_lines, result>>

Next ==
  \/ Traverse
  \/ SortNumberSymbols
  \/ PrintExpression
  \/ PrintBranch
  \/ PrintEndIf
  \/ WrapLine
  \/ WrapContinuation
  \/ ReturnFromDoprint
  \/ ReturnHuman
  \/ ReturnPair

Spec == Init /\ [][Next]_vars

(***************************************************************************)
(* Vocabulary of the properties                                            *)
(***************************************************************************)

SixSpaces == <<" ", " ", " ", " ", " ", " ">>
ContinuationMark == <<" ", " ", " ", " ", " ", "@", " ", " ", " ", " ">>
ParameterMark == SixSpaces \o <<"p", "a", "r", "a", "m", "e", "t", "e", "r">> \o <<" ", "(">>

\* sub occurs somewhere in text
Contains(text, sub) ==
  \E k \in 1..(Len(text) - Len(sub) + 1) : SubSeq(text, k, k + Len(sub) - 1) = sub

\* the call has returned / the printer has produced its logical lines
Returned == pc = "done"
Printed  == pc \in {"wrap", "while", "return", "done"}
\* doprint has just printed the expression, or has just failed
JustPrinted == (pc = "wrap" /\ n = 0) \/ pc = "raised"

\* the physical lines of the returned text
PhysicalLines == split(result, NL)

\* the printed expression of a one-line result, without "assign_to = "
PrintedText ==
  IF assign_to = <<>> THEN lines[1]
  ELSE Drop(lines[1], Len(assign_to[1]) + 3)

(***************************************************************************)
(* C1, C2: the fixed-form margins                                          *)
(***************************************************************************)

\* C1: every physical line of the text fcode returns begins with six spaces
\* or with the continuation prefix "     @    "; parameter lines, body
\* lines and Piecewise header and terminator lines included.
C1_LinePrefixes ==
  Returned =>
    \A k \in 1..Len(PhysicalLines) :
      \/ startswith(PhysicalLines[k], SixSpaces)
      \/ startswith(PhysicalLines[k], ContinuationMark)

C1_Witness ==
  /\ Returned /\ human /\ expr.kind = "Piecewise" /\ number_symbols # <<>>
  /\ \E k \in 1..Len(PhysicalLines) :
        startswith(PhysicalLines[k], ContinuationMark)

\* C2: no physical line of the text fcode returns is longer than 72
\* characters, whatever the precision and assign_to, parameter lines
\* included.
C2_NoLineOver72 ==
  Returned => \A k \in 1..Len(PhysicalLines) : Len(PhysicalLines[k]) <= 72

(***************************************************************************)
(* C3: the wrapper                                                         *)
(***************************************************************************)

Min(a, c) == IF a < c THEN a ELSE c

\* the physical lines the wrapper owes to the logical line L: L[0:66]
\* behind six spaces, then L[66+62j : 66+62(j+1)] behind the continuation
\* prefix for j = 0, 1, ... while that slice is not empty
WrapOf(L) ==
  LET m == IF Len(L) <= 66 THEN 0 ELSE (Len(L) - 66 + 61) \div 62
  IN <<SixSpaces \o SubSeq(L, 1, Min(66, Len(L)))>> \o
     [j \in 1..m |->
        ContinuationMark \o
          SubSeq(L, 66 + 62 * (j - 1) + 1, Min(66 + 62 * j, Len(L)))]

\* a physical line without its prefix
Payload(w) ==
  IF startswith(w, ContinuationMark) THEN Drop(w, 10) ELSE Drop(w, 6)

\* the wrapper has taken the first n logical lines, in order, and has
\* emitted exactly their physical lines; while it is inside a line, what it
\* has emitted and what is left of the line make up that line's wrapping
WrapperExact ==
  pc \in {"wrap", "while", "return", "done"} =>
    LET whole == concat([k \in 1..n |-> WrapOf(lines[k])])
    IN /\ n <= Len(lines)
       /\ pc \in {"return", "done"} => n = Len(lines)
       /\ pc # "while" => wrapped_lines = whole /\ line = <<>>
       /\ pc = "while" =>
            /\ Len(line) > 0
            /\ Len(wrapped_lines) < Len(whole)
            /\ wrapped_lines = SubSeq(whole, 1, Len(wrapped_lines))
            /\ concat([k \in 1..Len(wrapped_lines) |-> Payload(wrapped_lines[k])])
                 \o line
               = concat([k \in 1..n |-> lines[k]])
       /\ pc # "while" =>
            /\ concat([k \in 1..Len(wrapped_lines) |-> Payload(wrapped_lines[k])])
               = concat([k \in 1..n |-> lines[k]])
            /\ Cardinality({k \in 1..Len(wrapped_lines) :
                              startswith(wrapped_lines[k], SixSpaces)}) = n
       /\ \A k \in 1..Len(wrapped_lines) :
            startswith(wrapped_lines[k], ContinuationMark)
              => Len(wrapped_lines[k]) > 10

\* every step of the wrapper starts the next logical line or shortens what
\* is left of the current one, so the loops end
WrapperProgress ==
  /\ pc = "wrap" /\ n < Len(lines) => n' = n + 1 /\ lines' = lines
  /\ pc = "while" => Len(line') < Len(line) /\ n' = n /\ lines' = lines
  /\ pc = "wrap" /\ n = Len(lines) => pc' = "return"

\* C3: the wrapper takes the logical lines one at a time in order and emits
\* for each line L one statement line with L[0:66] and then continuation
\* lines with the successive 62-character slices of L until L is
\* exhausted; it terminates, every logical line yields exactly one
\* statement line, no continuation payload is empty, and the payloads
\* concatenated give back the logical lines character for character.
C3_Wrapper == []WrapperExact /\ [][WrapperProgress]_vars

C3_Witness ==
  /\ pc = "return" /\ Len(lines) >= 3
  /\ \E k \in 1..Len(lines) : Len(lines[k]) > 128
  /\ \E k \in 1..Len(lines) : Len(lines[k]) < 66

(***************************************************************************)
(* C4, C5: the lowering of a root Piecewise                                *)
(***************************************************************************)

\* value and condition of branch k (counted from 1) of the root Piecewise
BranchE(k) == expr.args[k].args[1]
BranchC(k) == expr.args[k].args[2]

Render(e) == _print(e, profile).text

IfHeader(c)     == <<"i", "f">> \o <<" ", "(">> \o Render(c) \o <<")", " ">> \o <<"t", "h", "e", "n">>
ElseIfHeader(c) == <<"e", "l", "s", "e">> \o <<" ">> \o IfHeader(c)
Else  == <<"e", "l", "s", "e">>
EndIf == <<"e", "n", "d">> \o <<" ">> \o <<"i", "f">>

\* C4: for a root Piecewise with branches (e0,c0),...,(ek,ck) doprint
\* produces, before wrapping, exactly 2(k+1)+1 logical lines: per branch in
\* order a header and then one body line, and a final "end if"; the header
\* of branch 0 is "if (<c0>) then", of each branch 0 < i < k
\* "else if (<ci>) then"; a body is "  <ei>", or "  <assign_to> = <ei>"
\* when assign_to is set; assign_to appears in no header and not in
\* "end if".
C4_PiecewiseLines ==
  Printed /\ expr.kind = "Piecewise" =>
    LET cnt == Len(expr.args)
    IN /\ Len(lines) = 2 * cnt + 1
       /\ lines[2 * cnt + 1] = EndIf
       /\ lines[1] = IfHeader(BranchC(1))
       /\ \A k \in 2..(cnt - 1) : lines[2 * k - 1] = ElseIfHeader(BranchC(k))
       /\ cnt > 1 => lines[2 * cnt - 1] \in {Else, ElseIfHeader(BranchC(cnt))}
       /\ \A k \in 1..cnt :
            lines[2 * k] =
              IF assign_to = <<>> THEN <<" ", " ">> \o Render(BranchE(k))
              ELSE <<" ", " ">> \o assign_to[1] \o <<" ", "=", " ">>
                     \o Render(BranchE(k))

C4_Witness ==
  /\ pc = "wrap" /\ n = 0 /\ expr.kind = "Piecewise"
  /\ Len(expr.args) = 3 /\ assign_to # <<>> /\ Len(lines) = 7

\* the logical lines that are a bare "else", and the physical ones
ElseLines == {k \in 1..Len(lines) : lines[k] = Else}
PhysicalElseLines ==
  {k \in 1..Len(wrapped_lines) : wrapped_lines[k] = SixSpaces \o Else}

\* "else" is the header of the last branch and nothing else is an "else"
ElseHeadsLastBranch ==
  /\ ElseLines = {Len(lines) - 2}
  /\ Cardinality(PhysicalElseLines) = 1
  /\ lines[Len(lines)] = EndIf

\* C5 as stated: for every root Piecewise with one or more branches the
\* block has an "else" line iff the condition of the last branch is the
\* literal True, and then that "else" is the header of the last branch.
C5_ElseIffLastTrue ==
  pc \in {"return", "done"} /\ expr.kind = "Piecewise" =>
    IF BranchC(Len(expr.args)) = true
    THEN ElseHeadsLastBranch
    ELSE ElseLines = {} /\ PhysicalElseLines = {}

\* C5 amended: for every root Piecewise with two or more branches the block
\* has an "else" line iff the condition of the last branch is the literal
\* True, and then that "else" is the header of the last branch; a Piecewise
\* with a single branch has no "else" line whatever its condition.
C5_ElseIffLastTrueOfSeveral ==
  pc \in {"return", "done"} /\ expr.kind = "Piecewise" =>
    IF Len(expr.args) >= 2 /\ BranchC(Len(expr.args)) = true
    THEN ElseHeadsLastBranch
    ELSE ElseLines = {} /\ PhysicalElseLines = {}

C5_Witness ==
  /\ pc = "done" /\ expr.kind = "Piecewise" /\ Len(expr.args) = 3
  /\ BranchC(3) = true /\ ElseLines = {5}

(***************************************************************************)
(* C6: strict and non-strict printing                                      *)
(***************************************************************************)

\* the expressions doprint hands to the printer: the expression itself, or
\* for a root Piecewise the value of every branch and the condition of
\* every branch whose header is not "else"
PrintedRoots ==
  IF expr.kind # "Piecewise" THEN {expr}
  ELSE {BranchE(k) : k \in 1..Len(expr.args)} \cup
       {BranchC(k) : k \in {j \in 1..Len(expr.args) :
                              ~(j > 1 /\ j = Len(expr.args) /\ BranchC(j) = true)}}

\* a function without a user-supplied or implicit name, or a node of a kind
\* the strict printer does not print
NotFortran77(node) ==
  \/ node.kind \in StrictBlacklist
  \/ /\ node.kind \in {"Function", "Piecewise"}
     /\ node.name \notin DOMAIN user_functions
     /\ node.name \notin DOMAIN implicit_functions

HasNotFortran77 ==
  \E r \in PrintedRoots :
    \E k \in 1..Len(postorder_traversal(r)) :
      NotFortran77(postorder_traversal(r)[k])

\* the logical lines of the non-strict printer for the same arguments
NonStrictLines ==
  LET P == [profile EXCEPT !.strict = FALSE]
  IN IF expr.kind = "Piecewise"
     THEN concat([k \in 1..Len(expr.args) |->
                    <<BranchHeader(k - 1, Len(expr.args), BranchC(k), P).text,
                      BranchBody(BranchE(k), P).text>>]) \o <<EndIf>>
     ELSE <<PlainLine(expr, P).text>>

RECURSIVE NumberSymbolsIn(_)
\* the NumberSymbols that occur in e
NumberSymbolsIn(e) ==
  (IF e.kind = "NumberSymbol" THEN {e} ELSE {}) \cup
  UNION {NumberSymbolsIn(e.args[k]) : k \in 1..Len(e.args)}

Declaration(ns) ==
  ParameterMark \o ns.name \o <<" ", "=", " ">> \o evalf(ns, precision) \o <<")">>

\* C7: in human mode the names declared by the parameter lines are the
\* NumberSymbols of E, each declared once with its evalf(precision), all
\* declarations before the body; with human=False the list holds the same
\* (name, value) pairs and the text has no parameter line.
C7_Declarations ==
  Returned =>
    LET NS == NumberSymbolsIn(expr)
        m  == Cardinality(NS)
    IN /\ Len(number_symbols) = m
       /\ {number_symbols[k] : k \in 1..m}
            = {<<ns.name, evalf(ns, precision)>> : ns \in NS}
       /\ human =>
            /\ Len(PhysicalLines) = m + Len(wrapped_lines)
            /\ {PhysicalLines[k] : k \in 1..m} = {Declaration(ns) : ns \in NS}
            /\ SubSeq(PhysicalLines, m + 1, Len(PhysicalLines)) = wrapped_lines
       /\ ~human => PhysicalLines = wrapped_lines
       /\ \A k \in 1..Len(wrapped_lines) :
            ~startswith(wrapped_lines[k], ParameterMark)

C7_Witness ==
  /\ Returned /\ human /\ precision # 15
  /\ Cardinality(NumberSymbolsIn(expr)) = 3
  /\ Cardinality({k \in 1..Len(postorder_traversal(expr)) :
                    postorder_traversal(expr)[k].kind = "NumberSymbol"}) > 3

\* the name a parameter line declares
DeclaredName(l) ==
  LET rest == Drop(l, Len(ParameterMark))
      sp   == CHOOSE k \in 1..Len(rest) :
                 rest[k] = " " /\ \A j \in 1..(k - 1) : rest[j] # " "
  IN SubSeq(rest, 1, sp - 1)

CallText(nm, f, P) ==
  LET a == [k \in 1..Len(f.args) |-> _print(f.args[k], P)]
  IN IF \E k \in 1..Len(a) : a[k].raised THEN Raised
     ELSE Str(nm \o <<"(">> \o join(<<",", " ">>, [k \in 1..Len(a) |-> a[k].text])
                 \o <<")">>)

\* what the claim says printer P prints for the function call f
NamedAsSpecified(f, P) ==
  IF f.name \in DOMAIN P.user_functions
  THEN CallText(P.user_functions[f.name], f, P)
  ELSE IF f.name \in DOMAIN implicit_functions
  THEN CallText(implicit_functions[f.name], f, P)
  ELSE IF P.strict THEN Raised
  ELSE CallText(f.name, f, P)

FunctionCallsIn(e) ==
  {postorder_traversal(e)[k] : k \in 1..Len(postorder_traversal(e))}
    \cap {f \in {postorder_traversal(e)[k] : k \in 1..Len(postorder_traversal(e))} :
            f.kind = "Function"}

\* C9: a function call is printed under its user_functions name if it has
\* one (even if it also has an implicit name), otherwise under its implicit
\* Fortran 77 name, otherwise under its own name by the non-strict printer
\* while the strict printer fails; a call that has a user or implicit name
\* prints the same in both modes.
C9_FunctionNames ==
  /\ JustPrinted => \A f \in FunctionCallsIn(expr) :
       /\ _print(f, profile) = NamedAsSpecified(f, profile)
       /\ ~_print(f, [profile EXCEPT !.strict = TRUE]).raised =>
            _print(f, [profile EXCEPT !.strict = TRUE])
              = _print(f, [profile EXCEPT !.strict = FALSE])
  /\ expr.kind = "Function" =>
       /\ Printed => /\ ~NamedAsSpecified(expr, profile).raised
                     /\ lines = <<lines[1]>>
                     /\ PrintedText = NamedAsSpecified(expr, profile).text
       /\ pc = "raised" => NamedAsSpecified(expr, profile).raised

C9_Witness ==
  /\ Returned /\ strict /\ expr = sin(x)
  /\ <<"s", "i", "n">> \in DOMAIN user_functions
  /\ startswith(PrintedText, <<"z", "s", "i", "n">> \o <<"(">>)

(***************************************************************************)
(* C10: sums with imaginary numbers                                        *)
(***************************************************************************)

RealNumbers(e) ==
  SelectSeq(e.args, LAMBDA a : is_real(a) /\ is_number(a))
ImaginaryNumbers(e) ==
  SelectSeq(e.args, LAMBDA a : ~(is_real(a) /\ is_number(a))
                                /\ is_imaginary(a) /\ is_number(a))
Others(e) ==
  SelectSeq(e.args, LAMBDA a : ~(is_real(a) /\ is_number(a))
                                /\ ~(is_imaginary(a) /\ is_number(a)))

CmplxTerm(e) ==
  <<"c", "m", "p", "l", "x">> \o <<"(">> \o Render(Add(RealNumbers(e))) \o <<",">>
    \o Render(NegITimes(ImaginaryNumbers(e))) \o <<")">>

\* the cmplx term, then " - " and sum(M) without its leading '-' if the
\* printed sum(M) starts with '-', else " + " and the printed sum(M)
CmplxPlusOthers(e) ==
  LET t == Render(Add(Others(e)))
  IN IF startswith(t, <<"-">>)
     THEN CmplxTerm(e) \o <<" ", "-", " ">> \o Drop(t, 1)
     ELSE CmplxTerm(e) \o <<" ", "+", " ">> \o t

\* the sums among the nodes of the expression that print without failing
PrintableSums ==
  {a \in {postorder_traversal(expr)[k] : k \in 1..Len(postorder_traversal(expr))} :
     a.kind = "Add" /\ ~_print(a, profile).raised}

\* C10 as stated: a sum with operands R (real numbers), J (imaginary
\* numbers) and M (others) is wrapped in cmplx iff J is not empty:
\* "cmplx(<sum R>,<-I*sum J>)" when M is empty, that term followed by the
\* signed sum(M) when M is not empty; when J is empty the base Add printer
\* is used and no cmplx appears, even when R is not empty.
C10_CmplxIffImaginary ==
  JustPrinted => \A a \in PrintableSums :
    LET t == Render(a)
    IN IF ImaginaryNumbers(a) # <<>>
       THEN IF Others(a) = <<>> THEN t = CmplxTerm(a)
            ELSE t = CmplxPlusOthers(a)
       ELSE /\ t = StrPrinter_print_Add(a, profile).text
            /\ ~Contains(t, <<"c", "m", "p", "l", "x">>)

\* C10 amended: as stated, except that when J is empty the sum is printed
\* by the base Add printer alone, which adds no cmplx of its own: the text
\* is the operands' own renderings joined by signs, and an operand such as
\* I*x still prints its own cmplx(0,1).
C10_CmplxWrapIffImaginary ==
  /\ JustPrinted => \A a \in PrintableSums :
       LET t == Render(a)
       IN IF ImaginaryNumbers(a) # <<>>
          THEN IF Others(a) = <<>> THEN t = CmplxTerm(a)
               ELSE t = CmplxPlusOthers(a)
          ELSE t = StrPrinter_print_Add(a, profile).text
  /\ Printed /\ expr.kind = "Add" => PrintedText = Render(expr)

C10_Witness ==
  /\ Returned /\ expr.kind = "Add"
  /\ ImaginaryNumbers(expr) # <<>> /\ Others(expr) # <<>>
  /\ RealNumbers(expr) # <<>>
  /\ PrintedText = CmplxTerm(expr) \o <<" ", "-", " ", "x">>

====
